---- MODULE Spec2Model ----
(***************************************************************************)
(* Model of the go-errors Result library:                                  *)
(*   - the Result tuple [data, error] and its constructors and guards,     *)
(*   - the synchronous combinators (trySync, unwrap, unwrapOr, map,        *)
(*     mapError, chain, combine),                                          *)
(*   - the asynchronous combinators (tryAsync, mapAsync, chainAsync,       *)
(*     combineAsync) over promises that settle in any order.               *)
(*   - the NestJS adapters: GoErrorsModule's registration, the request     *)
(*     path through ResultInterceptor and GoStyleExceptionFilter,          *)
(*   - the error taxonomy, the helpers wrapError, enhanceError and         *)
(*     isOperationalError, and the class decorators, over a heap of Error  *)
(*     objects where a reference is an index.                              *)
(*                                                                         *)
(* JavaScript values are records tagged by t, so that null, undefined,     *)
(* primitive values and arrays are pairwise distinct and comparable.       *)
(* A value's id stands for its reference: two values are the same object   *)
(* iff they are equal.                                                     *)
(***************************************************************************)
EXTENDS Integers, Sequences, FiniteSets, TLC

\* ---------------------------------------------------------------- bounds
MaxLen == 3      \* longest list handed to combine
MaxAsync == 2    \* longest list of promises handed to combineAsync

\* ---------------------------------------------------------------- values
Null == [t |-> "null"]
Undefined == [t |-> "undefined"]
Val(x) == [t |-> "val", id |-> x]
Arr(s) == [t |-> "array", items |-> s]

\* what a caller can pass as data (T is unconstrained)
Vals == {Null, Undefined, Val("a"), Val("b")}
\* what a caller can pass, throw or reject with as an error (E is unconstrained)
Errs == {Null, Val("e1"), Val("e2")}

\* ------------------------------------------------- completions of a call
Ret(v) == [kind |-> "return", val |-> v]
Thr(e) == [kind |-> "throw", val |-> e]
Pending == [kind |-> "pending", val |-> Null]
NoCall == [kind |-> "none", val |-> Null]

\* what a thunk handed to trySync / tryAsync can do
ThunkOutcomes == {Ret(v) : v \in Vals} \cup {Thr(e) : e \in Errs}

\* ------------------------------------------------------ the Result tuple
\* the tuple [data, error]: slot 0 is field data, slot 1 is field error
Tuple(d, e) == [data |-> d, error |-> e]

Ok(data) == Tuple(data, Null)

Err(error) == Tuple(Null, error)

Result == {Ok(v) : v \in Vals} \cup {Err(e) : e \in Errs}

hasError(result) == result.error # Null

isSuccess(result) == result.data # Null /\ result.error = Null

\* ------------------------------------------- user-supplied transform fns
MapFns == {"toB", "swap", "toNull", "throwE1"}
ChainFns == {"okSame", "okB", "errE2", "throwE1"}
ErrFns == {"toE2", "same", "toNull", "throwE1"}

\* fn(v): what the user's function does when invoked on v
Apply(fn, v) ==
  CASE fn = "toB" -> Ret(Val("b"))
    [] fn = "swap" -> Ret(IF v = Val("a") THEN Val("b") ELSE Val("a"))
    [] fn = "toNull" -> Ret(Null)
    [] fn = "throwE1" -> Thr(Val("e1"))
    [] fn = "okSame" -> Ret(Ok(v))
    [] fn = "okB" -> Ret(Ok(Val("b")))
    [] fn = "errE2" -> Ret(Err(Val("e2")))
    [] fn = "toE2" -> Ret(Val("e2"))
    [] fn = "same" -> Ret(v)

\* a finished call: its completion, how often it invoked the user's
\* function, and what the user's function did
Done(o, n, f) == [out |-> o, calls |-> n, fnOut |-> f]

\* ------------------------------------------------ synchronous combinators
trySync(thunk) ==
  IF thunk.kind = "return"
    THEN Done(Ret(Ok(thunk.val)), 1, thunk)
    ELSE Done(Ret(Err(thunk.val)), 1, thunk)

unwrap(result) ==
  LET data == result.data
      error == result.error
  IN IF error # Null THEN Done(Thr(error), 0, NoCall)
     ELSE Done(Ret(data), 0, NoCall)

unwrapOr(result, defaultValue) ==
  LET data == result.data
      error == result.error
  IN IF error # Null THEN Done(Ret(defaultValue), 0, NoCall)
     ELSE Done(Ret(data), 0, NoCall)

map_rewraps_input(result, fn) ==
  LET data == result.data
      error == result.error
  IN IF error # Null THEN Done(Ret(Tuple(Null, error)), 0, NoCall)
     ELSE LET r == Apply(fn, data)
          IN IF r.kind = "throw" THEN Done(r, 1, r)
             ELSE Done(Ret(Ok(data)), 1, r)

map(result, fn) ==
  LET data == result.data
      error == result.error
  IN IF error # Null THEN Done(Ret(Tuple(Null, error)), 0, NoCall)
     ELSE LET r == Apply(fn, data)
          IN IF r.kind = "throw" THEN Done(r, 1, r)
             ELSE Done(Ret(Ok(r.val)), 1, r)

mapError(result, fn) ==
  LET data == result.data
      error == result.error
  IN IF error # Null
       THEN LET r == Apply(fn, error)
            IN IF r.kind = "throw" THEN Done(r, 1, r)
               ELSE Done(Ret(Err(r.val)), 1, r)
       ELSE Done(Ret(Tuple(data, Null)), 0, NoCall)

chain_always_calls(result, fn) ==
  LET r == Apply(fn, result.data) IN Done(r, 1, r)

chain(result, fn) ==
  LET data == result.data
      error == result.error
  IN IF error # Null THEN Done(Ret(Tuple(Null, error)), 0, NoCall)
     ELSE LET r == Apply(fn, data) IN Done(r, 1, r)

\* the for-loop of combine: i is the next element, data the values so far
RECURSIVE combineLoop(_, _, _)
combineLoop(results, i, data) ==
  IF i > Len(results) THEN Ok(Arr(data))
  ELSE LET value == results[i].data
           error == results[i].error
       IN IF error # Null THEN Tuple(Null, error)
          ELSE combineLoop(results, i + 1, Append(data, value))

\* a scan that does not return at the first error: the last error wins
RECURSIVE combineNoEarlyReturn(_, _, _, _)
combineNoEarlyReturn(results, i, data, failed) ==
  IF i > Len(results) THEN (IF failed = <<>> THEN Ok(Arr(data)) ELSE Tuple(Null, failed[1]))
  ELSE LET value == results[i].data
           error == results[i].error
       IN IF error # Null THEN combineNoEarlyReturn(results, i + 1, data, <<error>>)
          ELSE combineNoEarlyReturn(results, i + 1, Append(data, value), failed)

combine_last_failure(results) == combineNoEarlyReturn(results, 1, <<>>, <<>>)

combine(results) == combineLoop(results, 1, <<>>)

\* ------------------------------------------------------------------ state
VARIABLES
  op,      \* the combinator called last
  arg,     \* its Result argument (Null when it has none)
  args,    \* its list argument (combine)
  fn,      \* the user function handed to it ("" when none)
  out,     \* its completion: pending, return or throw (reject)
  calls,   \* how often it has invoked the user's function
  fnOut,   \* what the user's function did
  inP,     \* the input promises of an asynchronous combinator
  allP,    \* the promise made by Promise.all
  pc,      \* where the asynchronous combinator is suspended
  registered,   \* how GoErrorsModule was registered and what it provides
  stage,        \* how far the current request has come
  env,          \* process.env.NODE_ENV
  path,         \* request.url
  handlerOut,   \* the route handler's completion: return or throw
  interceptOut, \* what ResultInterceptor's observable emitted or threw
  filterOut,    \* the completion of GoStyleExceptionFilter.catch
  logs,         \* the calls made to the pino logger for this request
  logOut,       \* the completion of the filter's call of logError
  responses,    \* the responses sent to the client for this request
  protos,       \* what the decorators have set on each class's prototype
  heap,         \* the Error objects constructed so far; a reference is an index
  helper        \* the last call of wrapError, enhanceError, isOperationalError
                \* or logError on an object of the heap

libVars == <<op, arg, args, fn, out, calls, fnOut, inP, allP, pc>>

reqVars == <<registered, stage, env, path, handlerOut, interceptOut, filterOut, logs, logOut, responses>>

objVars == <<protos, heap, helper>>

vars == <<op, arg, args, fn, out, calls, fnOut, inP, allP, pc,
          registered, stage, env, path, handlerOut, interceptOut, filterOut, logs,
          logOut, responses, protos, heap, helper>>

\* classes a decorator is applied to: the base class and two subclasses, one
\* whose constructor passes isOperational true and one that passes false
DecoratedTargets == {"AppError", "NotFoundError", "InternalError"}

\* no decorator has run: no prototype has an isOperational property
NoDecoration == [c \in DecoratedTargets |-> <<>>]

\* no helper has been called
NoHelper ==
  [op |-> "none", arg |-> 0, before |-> Null, size |-> 0, ret |-> 0,
   answer |-> FALSE, severity |-> "", prev |-> [op |-> "none", ret |-> 0]]

PendingP == [st |-> "pending", val |-> Null]
Fulfilled(v) == [st |-> "fulfilled", val |-> v]
Rejected(e) == [st |-> "rejected", val |-> e]

Init ==
  /\ op = "none"
  /\ arg = Null
  /\ args = <<>>
  /\ fn = ""
  /\ out = NoCall
  /\ calls = 0
  /\ fnOut = NoCall
  /\ inP = <<>>
  /\ allP = PendingP
  /\ pc = "idle"
  /\ registered = [via |-> "none", options |-> <<>>, providers |-> {}]
  /\ stage = "none"
  /\ env = "undefined"
  /\ path = ""
  /\ handlerOut = NoCall
  /\ interceptOut = NoCall
  /\ filterOut = NoCall
  /\ logs = <<>>
  /\ logOut = NoCall
  /\ responses = <<>>
  /\ protos = NoDecoration
  /\ heap = <<>>
  /\ helper = NoHelper

\* no asynchronous combinator is suspended.  The combinators, the request
\* path and the helpers on Error objects share no state, so each is explored
\* from the initial state on its own.
Idle ==
  /\ pc \in {"idle", "done"} /\ stage = "none"
  /\ protos = NoDecoration /\ heap = <<>>

\* a synchronous call: runs to completion in one step
Sync(name, a, as, f, d) ==
  /\ op' = name
  /\ arg' = a
  /\ args' = as
  /\ fn' = f
  /\ out' = d.out
  /\ calls' = d.calls
  /\ fnOut' = d.fnOut
  /\ inP' = <<>>
  /\ allP' = PendingP
  /\ pc' = "done"
  /\ UNCHANGED reqVars
  /\ UNCHANGED objVars

DoOk ==
  /\ Idle
  /\ \E v \in Vals :
       Sync("Ok", Null, <<>>, "", Done(Ret(Ok(v)), 0, NoCall))

DoErr ==
  /\ Idle
  /\ \E e \in Errs :
       Sync("Err", Null, <<>>, "", Done(Ret(Err(e)), 0, NoCall))

DoTrySync ==
  /\ Idle
  /\ \E th \in ThunkOutcomes :
       Sync("trySync", Null, <<>>, "thunk", trySync(th))

DoUnwrap ==
  /\ Idle
  /\ \E r \in Result :
       Sync("unwrap", r, <<>>, "", unwrap(r))

DoUnwrapOr ==
  /\ Idle
  /\ \E r \in Result, d \in Vals :
       Sync("unwrapOr", r, <<>>, "", unwrapOr(r, d))

DoMap ==
  /\ Idle
  /\ \E r \in Result, f \in MapFns :
       Sync("map", r, <<>>, f, map(r, f))

DoMapError ==
  /\ Idle
  /\ \E r \in Result, f \in ErrFns :
       Sync("mapError", r, <<>>, f, mapError(r, f))

DoChain ==
  /\ Idle
  /\ \E r \in Result, f \in ChainFns :
       Sync("chain", r, <<>>, f, chain(r, f))

ResultLists == UNION {[1..n -> Result] : n \in 0..MaxLen}

DoCombine ==
  /\ Idle
  /\ \E rs \in ResultLists :
       Sync("combine", Null, rs, "", Done(Ret(combine(rs)), 0, NoCall))

\* ----------------------------------------------- asynchronous combinators
\* an asynchronous call starts: it returns a pending promise and suspends
Start(name, f, inputs, all, th, n, where) ==
  /\ op' = name
  /\ arg' = Null
  /\ args' = <<>>
  /\ fn' = f
  /\ out' = Pending
  /\ calls' = n
  /\ fnOut' = th
  /\ inP' = inputs
  /\ allP' = all
  /\ pc' = where
  /\ UNCHANGED reqVars
  /\ UNCHANGED objVars

\* an asynchronous call settles the promise it returned
Settle(o) ==
  /\ out' = o
  /\ pc' = "done"

\* tryAsync runs fn() at once and suspends on the promise fn returned;
\* th is what that promise settles to (a synchronous throw included)
StartTryAsync ==
  /\ Idle
  /\ \E th \in ThunkOutcomes : Start("tryAsync", "thunk", <<>>, PendingP, th, 1, "awaitFn")

ResumeTryAsync ==
  /\ op = "tryAsync" /\ pc = "awaitFn"
  /\ Settle(IF fnOut.kind = "return" THEN Ret(Ok(fnOut.val)) ELSE Ret(Err(fnOut.val)))
  /\ UNCHANGED <<op, arg, args, fn, calls, fnOut, inP, allP>>
  /\ UNCHANGED reqVars
  /\ UNCHANGED objVars

StartMapAsync ==
  /\ Idle
  /\ \E f \in MapFns : Start("mapAsync", f, <<PendingP>>, PendingP, NoCall, 0, "awaitInput")

StartChainAsync ==
  /\ Idle
  /\ \E f \in ChainFns : Start("chainAsync", f, <<PendingP>>, PendingP, NoCall, 0, "awaitInput")

\* Promise.all of no promise is fulfilled with the empty array
StartCombineAsync ==
  /\ Idle
  /\ \E n \in 0..MaxAsync :
       Start("combineAsync", "", [i \in 1..n |-> PendingP],
             IF n = 0 THEN Fulfilled(Arr(<<>>)) ELSE PendingP, NoCall, 0, "awaitAll")

Settlements == {Fulfilled(r) : r \in Result} \cup {Rejected(e) : e \in Errs}

\* Promise.all after input promise s settled, inputs being the promises then:
\* rejected by the first rejection, fulfilled by the last fulfilment with
\* the values in list order
PromiseAll(all, inputs, s) ==
  IF all.st # "pending" THEN all
  ELSE IF s.st = "rejected" THEN Rejected(s.val)
  ELSE IF \A j \in DOMAIN inputs : inputs[j].st = "fulfilled"
    THEN Fulfilled(Arr([j \in DOMAIN inputs |-> inputs[j].val]))
    ELSE all

\* one of the caller's promises settles, in any order and at any time,
\* also after the combinator has settled its own promise
SettleInput ==
  /\ \E i \in DOMAIN inP, s \in Settlements :
       /\ inP[i].st = "pending"
       /\ inP' = [inP EXCEPT ![i] = s]
       /\ allP' = IF op = "combineAsync" THEN PromiseAll(allP, inP', s) ELSE allP
  /\ UNCHANGED <<op, arg, args, fn, out, calls, fnOut, pc>>
  /\ UNCHANGED reqVars
  /\ UNCHANGED objVars

\* mapAsync after `await result`
ResumeMapAsync ==
  /\ op = "mapAsync" /\ pc = "awaitInput"
  /\ inP[1].st # "pending"
  /\ IF inP[1].st = "rejected"
       THEN Settle(Thr(inP[1].val)) /\ UNCHANGED <<arg, calls, fnOut>>
       ELSE LET data == inP[1].val.data
                error == inP[1].val.error
            IN /\ arg' = inP[1].val
               /\ IF error # Null
                    THEN Settle(Ret(Tuple(Null, error))) /\ UNCHANGED <<calls, fnOut>>
                    ELSE LET r == Apply(fn, data)
                         IN /\ calls' = calls + 1
                            /\ fnOut' = r
                            /\ IF r.kind = "throw" THEN Settle(r)
                               ELSE out' = out /\ pc' = "awaitFn"
  /\ UNCHANGED <<op, args, fn, inP, allP>>
  /\ UNCHANGED reqVars
  /\ UNCHANGED objVars

\* mapAsync after `await fn(data)`
ResumeMapAsyncFn ==
  /\ op = "mapAsync" /\ pc = "awaitFn"
  /\ Settle(Ret(Ok(fnOut.val)))
  /\ UNCHANGED <<op, arg, args, fn, calls, fnOut, inP, allP>>
  /\ UNCHANGED reqVars
  /\ UNCHANGED objVars

\* chainAsync after `await result`
ResumeChainAsync ==
  /\ op = "chainAsync" /\ pc = "awaitInput"
  /\ inP[1].st # "pending"
  /\ IF inP[1].st = "rejected"
       THEN Settle(Thr(inP[1].val)) /\ UNCHANGED <<arg, calls, fnOut>>
       ELSE LET data == inP[1].val.data
                error == inP[1].val.error
            IN /\ arg' = inP[1].val
               /\ IF error # Null
                    THEN Settle(Ret(Tuple(Null, error))) /\ UNCHANGED <<calls, fnOut>>
                    ELSE LET r == Apply(fn, data)
                         IN /\ calls' = calls + 1
                            /\ fnOut' = r
                            /\ Settle(r)
  /\ UNCHANGED <<op, args, fn, inP, allP>>
  /\ UNCHANGED reqVars
  /\ UNCHANGED objVars

\* combineAsync after `await Promise.all(results)`
ResumeCombineAsync ==
  /\ op = "combineAsync" /\ pc = "awaitAll"
  /\ allP.st # "pending"
  /\ Settle(IF allP.st = "fulfilled" THEN Ret(combine(allP.val.items)) ELSE Thr(allP.val))
  /\ UNCHANGED <<op, arg, args, fn, calls, fnOut, inP, allP>>
  /\ UNCHANGED reqVars
  /\ UNCHANGED objVars

\* ========================================================= request path
\* ------------------------------------------------------------ JS objects
\* a plain object with the properties props (a function from keys)
Obj(props) == [t |-> "object", props |-> props]

EmptyObj == [k \in {} |-> Null]

\* {...a, ...b}: the keys of both, b's value where both have the key
Spread(a, b) ==
  [k \in DOMAIN a \cup DOMAIN b |-> IF k \in DOMAIN b THEN b[k] ELSE a[k]]

\* a Result tuple is a JavaScript array of length 2
IsArray(v) == "t" \notin DOMAIN v \/ v.t = "array"

Items(v) == IF "t" \in DOMAIN v THEN v.items ELSE <<v.data, v.error>>

\* `v && ...`
Truthy(v) == v \notin {Null, Undefined}

\* typeof v === 'object' (null aside, which Truthy excludes first)
TypeofObject(v) == "t" \notin DOMAIN v \/ v.t \in {"object", "array", "error"}

\* 'k' in v
HasKey(v, k) == "t" \in DOMAIN v /\ v.t = "object" /\ k \in DOMAIN v.props

\* ---------------------------------------------------------- error taxonomy
ConstructedAt == "t0"    \* new Date() when an AppError is constructed
Now == "now"             \* new Date().toISOString() when a response is built

\* new AppError(message, context, originalError, isOperational), run as the
\* constructor of class cls
AppError(cls, message, context, originalError, isOperational) ==
  [t |-> "error", cls |-> cls, name |-> cls, message |-> message,
   context |-> Spread(context, [timestamp |-> ConstructedAt]),
   originalError |-> originalError, isOperational |-> isOperational]

\* the code and status each concrete kind passes to super()
Pinned ==
  [ValidationError |-> [code |-> "VALIDATION_ERROR", statusCode |-> 400],
   NotFoundError |-> [code |-> "NOT_FOUND", statusCode |-> 404],
   UnauthorizedError |-> [code |-> "UNAUTHORIZED", statusCode |-> 401],
   ForbiddenError |-> [code |-> "FORBIDDEN", statusCode |-> 403],
   ConflictError |-> [code |-> "CONFLICT", statusCode |-> 409],
   InternalError |-> [code |-> "INTERNAL_ERROR", statusCode |-> 500],
   ExternalServiceError |-> [code |-> "EXTERNAL_SERVICE_ERROR", statusCode |-> 502],
   TimeoutError |-> [code |-> "TIMEOUT", statusCode |-> 408]]

Taxonomy == DOMAIN Pinned

\* a concrete kind whose caller's context overrides the pinned code and status
TaxonomyError_caller_overrides(cls, message, context, originalError) ==
  AppError(cls, message, Spread(Pinned[cls], context), originalError,
           cls # "InternalError")

\* new <cls>(message, context, originalError) for a concrete kind
TaxonomyError(cls, message, context, originalError) ==
  AppError(cls, message, Spread(context, Pinned[cls]), originalError,
           cls # "InternalError")

\* new Error(message)
PlainError(message) ==
  [t |-> "error", cls |-> "Error", name |-> "Error", message |-> message]

\* the framework's HttpException: getStatus(), getResponse() and the message
\* the framework derives from the response (the response itself when a
\* string, its string message property when an object has one, else the
\* class name in words)
HttpMessage(response) ==
  IF response.t = "val" THEN response.id
  ELSE IF "message" \in DOMAIN response.props THEN response.props.message
  ELSE "Http Exception"

HttpException(response, status) ==
  [t |-> "error", cls |-> "HttpException", name |-> "HttpException",
   message |-> HttpMessage(response), status |-> status, response |-> response]

\* exception instanceof HttpException
IsHttpException(e) == "t" \in DOMAIN e /\ e.t = "error" /\ e.cls = "HttpException"

\* exception instanceof AppError
IsAppError(e) ==
  "t" \in DOMAIN e /\ e.t = "error" /\ e.cls \in Taxonomy \cup {"AppError"}

\* exception.stack: an Error's stack trace begins with its message
Stack(e) ==
  IF "t" \in DOMAIN e /\ e.t = "error" THEN [t |-> "stack", of |-> e.message]
  ELSE Undefined

\* ---------------------------------------------------- what handlers do
MaxRawLen == 3   \* longest raw array a handler returns

Messages == {"User not found", "bad email"}

\* the context a caller passes to an error constructor
CallerContexts ==
  {EmptyObj,
   [metadata |-> [userId |-> "999"]],
   [metadata |-> EmptyObj],
   [code |-> "CUSTOM", statusCode |-> 418]}

AppErrors ==
  {TaxonomyError(c, m, x, Undefined) :
     c \in Taxonomy, m \in Messages, x \in CallerContexts}
  \cup {AppError("AppError", "wrapped", x, Undefined, o) :
     x \in {EmptyObj, [code |-> "CUSTOM", statusCode |-> 418]}, o \in BOOLEAN}

HttpExceptions ==
  {HttpException(Val("Not here"), 404),
   HttpException(Obj([statusCode |-> 404, message |-> "Not here", error |-> "Not Found"]), 404),
   HttpException(Obj([reason |-> "quota"]), 400)}

\* the Error objects a handler can throw or return in a Result
Exceptions == AppErrors \cup HttpExceptions \cup {PlainError("boom")}

RawItems == {Val("a"), Null, Undefined}

RawArrays == {Arr(items) : items \in UNION {[1..n -> RawItems] : n \in 0..MaxRawLen}}

\* raw data that is no array: primitives, null, plain objects, one of them
\* with a key named success, and an envelope the handler built itself
RawValues ==
  {Null, Undefined, Val("a"), Obj([id |-> "1"]),
   Obj([success |-> TRUE, count |-> 3]),
   Obj([success |-> TRUE, data |-> Val("a"), timestamp |-> "earlier"])}

HandlerResults ==
  {Ok(d) : d \in {Null, Val("a"), Obj([id |-> "1"])}}
  \cup {Err(e) : e \in Exceptions}

HandlerOutcomes ==
  {Ret(v) : v \in HandlerResults \cup RawValues \cup RawArrays}
  \cup {Thr(e) : e \in Exceptions}

NodeEnvs == {"production", "development", "undefined"}

Paths == {"/users/999", "/users"}

\* ------------------------------------------------------ ResultInterceptor
SuccessResponse(data) == Obj([success |-> TRUE, data |-> data, timestamp |-> Now])

\* a map callback without the branch for values that are envelopes already
intercept_always_wraps(result) ==
  IF IsArray(result) /\ Len(Items(result)) = 2
    THEN LET data == Items(result)[1]
             error == Items(result)[2]
         IN IF error # Null THEN Thr(error)
            ELSE Ret(SuccessResponse(data))
  ELSE Ret(SuccessResponse(result))

\* a map callback without the branch for Result tuples
intercept_treats_tuple_as_raw(result) ==
  IF Truthy(result) /\ TypeofObject(result) /\ HasKey(result, "success")
    THEN Ret(result)
  ELSE Ret(SuccessResponse(result))

\* the map callback of ResultInterceptor.intercept
intercept(result) ==
  IF Truthy(result) /\ TypeofObject(result) /\ HasKey(result, "success")
    THEN Ret(result)
  ELSE IF IsArray(result) /\ Len(Items(result)) = 2
    THEN LET data == Items(result)[1]
             error == Items(result)[2]
         IN IF error # Null THEN Thr(error)
            ELSE Ret(SuccessResponse(data))
  ELSE Ret(SuccessResponse(result))

\* ------------------------------------------------- GoStyleExceptionFilter
GenericMessage == "Internal server error"

\* the filter's defaults: what it settles on for an unclassified exception
Defaults ==
  [status |-> 500, message |-> GenericMessage,
   code |-> "INTERNAL_ERROR", context |-> EmptyObj]

\* a classification that reports every exception's own message
Classify_leaks_message(exception) ==
  IF "t" \in DOMAIN exception /\ exception.t = "error"
    THEN [Defaults EXCEPT !.message = exception.message]
    ELSE Defaults

\* a classification that reads an AppError's message but not its context
Classify_ignores_context(exception) ==
  IF IsAppError(exception)
    THEN [Defaults EXCEPT !.message = exception.message]
    ELSE Defaults

\* the status, message, code and context the filter settles on
Classify(exception) ==
  LET c0 == Defaults
      c1 == IF IsHttpException(exception)
              THEN LET r == exception.response
                   IN IF r.t = "val"
                        THEN [c0 EXCEPT !.status = exception.status, !.message = r.id]
                      ELSE IF r.t = "object"
                        THEN [c0 EXCEPT
                                !.status = exception.status,
                                !.message = IF "message" \in DOMAIN r.props
                                              THEN r.props.message ELSE c0.message,
                                !.code = IF "error" \in DOMAIN r.props
                                           THEN r.props.error ELSE c0.code]
                      ELSE [c0 EXCEPT !.status = exception.status]
              ELSE c0
  IN IF IsAppError(exception)
       THEN LET x == exception.context
            IN [status |-> IF "statusCode" \in DOMAIN x THEN x.statusCode ELSE c1.status,
                message |-> exception.message,
                code |-> IF "code" \in DOMAIN x THEN x.code ELSE c1.code,
                context |-> IF "metadata" \in DOMAIN x THEN x.metadata ELSE EmptyObj]
       ELSE c1

\* a logError that stamps the logged error with the time of logging
logError_restamps(error, additionalContext, backend) ==
  IF error \in {Null, Undefined}
    THEN [out |-> Thr(Val("TypeError")), entries |-> <<>>]
    ELSE LET fatal == "isOperational" \in DOMAIN error /\ error.isOperational = FALSE
             entry == [severity |-> IF fatal THEN "fatal" ELSE "error",
                       msg |-> IF fatal THEN "Programming Error" ELSE "Operational Error",
                       error |-> IF "context" \in DOMAIN error
                                   THEN [error EXCEPT !.context =
                                           Spread(error.context, [timestamp |-> Now])]
                                   ELSE error,
                       extra |-> additionalContext]
         IN [out |-> IF backend = "raise" THEN Thr(Val("LoggerFailure")) ELSE Ret(Undefined),
             entries |-> <<entry>>]

\* ErrorLogger.logError(error, additionalContext): the pino level it calls
\* and whether the call comes back; reading error.name of null or undefined
\* raises before anything is logged, and backend says whether pino raises
logError(error, additionalContext, backend) ==
  IF error \in {Null, Undefined}
    THEN [out |-> Thr(Val("TypeError")), entries |-> <<>>]
    ELSE LET fatal == "isOperational" \in DOMAIN error /\ error.isOperational = FALSE
             entry == [severity |-> IF fatal THEN "fatal" ELSE "error",
                       msg |-> IF fatal THEN "Programming Error" ELSE "Operational Error",
                       error |-> error,
                       extra |-> additionalContext]
         IN [out |-> IF backend = "raise" THEN Thr(Val("LoggerFailure")) ELSE Ret(Undefined),
             entries |-> <<entry>>]

\* an errorResponse object that carries the stack in every environment
ErrorResponse_always_stack(exception, c, nodeEnv, url) ==
  Obj([success |-> FALSE,
       error |->
         Spread(Spread([code |-> c.code, message |-> c.message, statusCode |-> c.status,
                        timestamp |-> Now, path |-> url],
                       IF DOMAIN c.context # {} THEN [context |-> c.context] ELSE EmptyObj),
                [stack |-> Stack(exception)])])

\* the errorResponse object the filter builds
ErrorResponse(exception, c, nodeEnv, url) ==
  Obj([success |-> FALSE,
       error |->
         Spread(Spread([code |-> c.code, message |-> c.message, statusCode |-> c.status,
                        timestamp |-> Now, path |-> url],
                       IF DOMAIN c.context # {} THEN [context |-> c.context] ELSE EmptyObj),
                IF nodeEnv # "production" THEN [stack |-> Stack(exception)] ELSE EmptyObj)])

\* GoStyleExceptionFilter.catch(exception, host): the log calls made, the
\* responses sent with response.status(status).json(...), and its completion
catch(exception, nodeEnv, url, backend) ==
  LET c == Classify(exception)
      extra == Spread([path |-> url, method |-> "GET", statusCode |-> c.status],
                      IF IsAppError(exception) THEN EmptyObj ELSE [isUnexpected |-> TRUE])
      lg == logError(exception, extra, backend)
  IN IF lg.out.kind = "throw"
       THEN [out |-> lg.out, logs |-> lg.entries, logOut |-> lg.out, sent |-> <<>>]
       ELSE [out |-> Ret(Undefined), logs |-> lg.entries, logOut |-> lg.out,
             sent |-> <<[status |-> c.status, by |-> "filter",
                         body |-> ErrorResponse(exception, c, nodeEnv, url)]>>]

\* ----------------------------------------------------------- GoErrorsModule
\* the options a caller passes to forRoot, or the factory resolves to
ModuleOptions ==
  {EmptyObj, [useResultInterceptor |-> TRUE], [useResultInterceptor |-> FALSE]}

\* the providers registered by both forRoot and forRootAsync
BaseProviders == {"GO_ERRORS_OPTIONS", "ERROR_LOGGER", "ErrorLogger", "APP_FILTER"}

\* GoErrorsModule.forRoot(options)
forRoot(options) ==
  LET useResultInterceptor ==
        IF "useResultInterceptor" \in DOMAIN options
          THEN options.useResultInterceptor ELSE TRUE
      useErrorLoggingInterceptor ==
        IF "useErrorLoggingInterceptor" \in DOMAIN options
          THEN options.useErrorLoggingInterceptor ELSE FALSE
  IN [via |-> "forRoot", options |-> options,
      providers |-> BaseProviders
                    \cup (IF useResultInterceptor THEN {"ResultInterceptor"} ELSE {})
                    \cup (IF useErrorLoggingInterceptor
                            THEN {"ErrorLoggingInterceptor"} ELSE {})]

\* GoErrorsModule.forRootAsync({useFactory}), options being what the factory
\* resolves to
forRootAsync(options) ==
  [via |-> "forRootAsync", options |-> options, providers |-> BaseProviders]

\* the application imports the module one way or the other and boots
Register ==
  /\ op = "none" /\ stage = "none"
  /\ protos = NoDecoration /\ heap = <<>>
  /\ \E options \in ModuleOptions :
       registered' \in {forRoot(options), forRootAsync(options)}
  /\ stage' = "booted"
  /\ UNCHANGED <<env, path, handlerOut, interceptOut, filterOut, logs, logOut, responses>>
  /\ UNCHANGED libVars
  /\ UNCHANGED objVars

\* --------------------------------------------------- one request at a time
\* the framework routes a request to its handler, which returns or throws
HandleRequest ==
  /\ stage \in {"booted", "done"}
  /\ env' \in (IF stage = "booted" THEN NodeEnvs ELSE {env})
  /\ path' \in Paths
  /\ handlerOut' \in HandlerOutcomes
  /\ stage' = "handled"
  /\ interceptOut' = NoCall
  /\ filterOut' = NoCall
  /\ logs' = <<>>
  /\ logOut' = NoCall
  /\ responses' = <<>>
  /\ UNCHANGED registered
  /\ UNCHANGED libVars
  /\ UNCHANGED objVars

\* next.handle().pipe(map(...), catchError(...)): a returned value goes
\* through the map callback, a thrown one is re-thrown as it is
Intercept ==
  /\ stage = "handled" /\ "ResultInterceptor" \in registered.providers
  /\ interceptOut' = IF handlerOut.kind = "return" THEN intercept(handlerOut.val)
                     ELSE Thr(handlerOut.val)
  /\ stage' = "intercepted"
  /\ UNCHANGED <<registered, env, path, handlerOut, filterOut, logs, logOut, responses>>
  /\ UNCHANGED libVars
  /\ UNCHANGED objVars

\* no ResultInterceptor is provided: the handler's completion reaches the
\* framework as it is
PassThrough ==
  /\ stage = "handled" /\ "ResultInterceptor" \notin registered.providers
  /\ interceptOut' = handlerOut
  /\ stage' = "intercepted"
  /\ UNCHANGED <<registered, env, path, handlerOut, filterOut, logs, logOut, responses>>
  /\ UNCHANGED libVars
  /\ UNCHANGED objVars

\* the framework sends what the interceptor's observable (the handler, when
\* there is no interceptor) emitted
SendSuccess ==
  /\ stage = "intercepted" /\ interceptOut.kind = "return"
  /\ responses' = <<[status |-> 200,
                     by |-> IF "ResultInterceptor" \in registered.providers
                              THEN "interceptor" ELSE "handler",
                     body |-> interceptOut.val]>>
  /\ stage' = "done"
  /\ UNCHANGED <<registered, env, path, handlerOut, interceptOut, filterOut, logs, logOut>>
  /\ UNCHANGED libVars
  /\ UNCHANGED objVars

\* the framework hands what the observable threw to the exception filter
CatchException ==
  /\ stage = "intercepted" /\ interceptOut.kind = "throw"
  /\ "APP_FILTER" \in registered.providers
  /\ \E backend \in {"ok", "raise"} :
       LET r == catch(interceptOut.val, env, path, backend)
       IN /\ logs' = r.logs
          /\ logOut' = r.logOut
          /\ filterOut' = r.out
          /\ responses' = r.sent
  /\ stage' = "done"
  /\ UNCHANGED <<registered, env, path, handlerOut, interceptOut>>
  /\ UNCHANGED libVars
  /\ UNCHANGED objVars

\* ========================================================= Error objects
MaxHeap == 2     \* most Error objects constructed in one run

\* a reference to the i-th object constructed
Ref(i) == [t |-> "ref", at |-> i]

\* target.prototype instanceof AppError: target is a proper subclass
ExtendsAppError(target) == target \in Taxonomy

\* @Operational class target
Operational(p, target) ==
  IF ExtendsAppError(target)
    THEN [p EXCEPT ![target] = [isOperational |-> TRUE]]
    ELSE p

\* @ProgrammingError class target
ProgrammingError(p, target) ==
  IF ExtendsAppError(target)
    THEN [p EXCEPT ![target] = [isOperational |-> FALSE]]
    ELSE p

\* 'key' in obj: an own property, or one on the prototype of obj's class
In(p, obj, key) ==
  \/ key \in DOMAIN obj
  \/ obj.cls \in DOMAIN p /\ key \in DOMAIN p[obj.cls]

\* obj.key: the own property shadows the prototype's
Get(p, obj, key) ==
  IF key \in DOMAIN obj THEN obj[key]
  ELSE IF obj.cls \in DOMAIN p /\ key \in DOMAIN p[obj.cls] THEN p[obj.cls][key]
  ELSE Undefined

isOperationalError(p, error) ==
  In(p, error, "isOperational") /\ Get(p, error, "isOperational") = TRUE

\* a wrapError that does not keep the original
wrapError_drops_original(h, error, message, context) ==
  [heap |-> Append(h, AppError("AppError", message, context, Undefined, TRUE)),
   ret |-> Len(h) + 1]

\* wrapError(error, message, context), error being a reference into h
wrapError(h, error, message, context) ==
  [heap |-> Append(h, AppError("AppError", message, context, Ref(error), TRUE)),
   ret |-> Len(h) + 1]

\* an enhanceError that wraps whatever it is given
enhanceError_always_wraps(h, p, error, context) ==
  [heap |-> Append(h, AppError("AppError", h[error].message, context, Ref(error), TRUE)),
   ret |-> Len(h) + 1]

\* enhanceError(error, context), error being a reference into h
enhanceError(h, p, error, context) ==
  IF In(p, h[error], "context")
    THEN [heap |-> h, ret |-> error]
    ELSE [heap |-> Append(h, AppError("AppError", h[error].message, context,
                                      Ref(error), TRUE)),
          ret |-> Len(h) + 1]

\* the context handed to a helper; none at all spreads to no keys
HelperContexts == {EmptyObj, [metadata |-> [userId |-> "999"]]}

\* what callers construct: a plain Error, an Error of another library that
\* has a context property of its own, and errors of the taxonomy
Constructed ==
  {PlainError("boom"),
   Spread(PlainError("boom"), [context |-> [requestId |-> "r1"]]),
   AppError("AppError", "wrapped", EmptyObj, Undefined, TRUE),
   TaxonomyError("NotFoundError", "User not found", EmptyObj, Undefined),
   TaxonomyError("InternalError", "bad email", EmptyObj, Undefined)}

\* the helpers run apart from the combinators and from requests
Apart == op = "none" /\ stage = "none"

\* a finished helper call on the object at arg
Called(name, a, r, answer, severity) ==
  [op |-> name, arg |-> a, before |-> heap[a], size |-> Len(heap), ret |-> r,
   answer |-> answer, severity |-> severity,
   prev |-> [op |-> helper.op, ret |-> helper.ret]]

\* a class is declared under one of the decorators
Decorate ==
  /\ Apart /\ heap = <<>> /\ protos = NoDecoration
  /\ \E target \in DecoratedTargets :
       protos' \in {Operational(protos, target), ProgrammingError(protos, target)}
  /\ UNCHANGED <<heap, helper>>
  /\ UNCHANGED <<libVars, reqVars>>

\* new Error(...), new NotFoundError(...), ...
NewError ==
  /\ Apart /\ Len(heap) < MaxHeap
  /\ \E e \in Constructed : heap' = Append(heap, e)
  /\ UNCHANGED <<protos, helper>>
  /\ UNCHANGED <<libVars, reqVars>>

DoWrapError ==
  /\ Apart /\ Len(heap) < MaxHeap
  /\ \E error \in 1..Len(heap), context \in HelperContexts :
       LET r == wrapError(heap, error, "wrapped", context)
       IN /\ heap' = r.heap
          /\ helper' = Called("wrapError", error, r.ret, FALSE, "")
  /\ UNCHANGED protos
  /\ UNCHANGED <<libVars, reqVars>>

DoEnhanceError ==
  /\ Apart
  /\ \E error \in 1..Len(heap), context \in HelperContexts :
       LET r == enhanceError(heap, protos, error, context)
       IN /\ Len(r.heap) <= MaxHeap
          /\ heap' = r.heap
          /\ helper' = Called("enhanceError", error, r.ret, FALSE, "")
  /\ UNCHANGED protos
  /\ UNCHANGED <<libVars, reqVars>>

DoIsOperationalError ==
  /\ Apart
  /\ \E error \in 1..Len(heap) :
       helper' = Called("isOperationalError", error, 0,
                        isOperationalError(protos, heap[error]), "")
  /\ UNCHANGED <<protos, heap>>
  /\ UNCHANGED <<libVars, reqVars>>

\* ErrorLogger.logError(error) on an object of the heap
DoLogError ==
  /\ Apart
  /\ \E error \in 1..Len(heap) :
       helper' = Called("logError", error, 0, FALSE,
                        logError(heap[error], EmptyObj, "ok").entries[1].severity)
  /\ UNCHANGED <<protos, heap>>
  /\ UNCHANGED <<libVars, reqVars>>

Next ==
  \/ DoOk
  \/ DoErr
  \/ DoTrySync
  \/ DoUnwrap
  \/ DoUnwrapOr
  \/ DoMap
  \/ DoMapError
  \/ DoChain
  \/ DoCombine
  \/ StartTryAsync
  \/ ResumeTryAsync
  \/ StartMapAsync
  \/ ResumeMapAsync
  \/ ResumeMapAsyncFn
  \/ StartChainAsync
  \/ ResumeChainAsync
  \/ StartCombineAsync
  \/ ResumeCombineAsync
  \/ SettleInput
  \/ Register
  \/ HandleRequest
  \/ Intercept
  \/ PassThrough
  \/ SendSuccess
  \/ CatchException
  \/ Decorate
  \/ NewError
  \/ DoWrapError
  \/ DoEnhanceError
  \/ DoIsOperationalError
  \/ DoLogError

Spec == Init /\ [][Next]_vars

\* ================================================================ claims
Settled == out.kind \in {"return", "throw"}

\* a slot is populated when it holds anything but null
OnePopulated(r) == (r.data # Null) # (r.error # Null)

ResultOps == {"Ok", "Err", "trySync", "tryAsync", "map", "mapError", "chain", "combine"}

\* C1: every Result the library produces (Ok, Err, trySync, tryAsync, map,
\* mapError, chain, combine; null inputs included) has exactly one populated
\* slot.  Violated: Ok(null) is [null, null].
C1_ExactlyOneSlot ==
  (op \in ResultOps /\ out.kind = "return") => OnePopulated(out.val)

\* C2: isSuccess(Ok(x)) and not hasError(Ok(x)) for every x; hasError(Err(e))
\* and not isSuccess(Err(e)) for every e.  Violated: isSuccess(Ok(null)) is
\* false and hasError(Err(null)) is false.
C2_GuardsOnConstructors ==
  /\ (op = "Ok" /\ out.kind = "return") =>
        (isSuccess(out.val) /\ ~hasError(out.val))
  /\ (op = "Err" /\ out.kind = "return") =>
        (hasError(out.val) /\ ~isSuccess(out.val))

\* C3: unwrap(Ok(x)) returns x for every x and unwrap(Err(e)) raises exactly e
\* for every e.  Violated: unwrap(Err(null)) returns null.
C3_UnwrapReturnsOrRaises ==
  op = "unwrap" =>
    /\ \A x \in Vals : arg = Ok(x) => out = Ret(x)
    /\ \A e \in Errs : arg = Err(e) => out = Thr(e)

\* C4: trySync / tryAsync turn every value the thunk raises into a Failure
\* carrying exactly that value, one that does not read as a success, and a
\* returned v into Success(v).  Violated: a thunk raising null yields
\* [null, null], which hasError does not report.
C4_TryCatchesEverything ==
  (op \in {"trySync", "tryAsync"} /\ Settled) =>
    /\ fnOut.kind = "return" => out = Ret(Ok(fnOut.val))
    /\ fnOut.kind = "throw" =>
         (out = Ret(Err(fnOut.val)) /\ hasError(out.val) /\ ~isSuccess(out.val))

\* index of the first element of rs whose error slot is populated
FirstFailure(rs) ==
  CHOOSE i \in 1..Len(rs) :
    hasError(rs[i]) /\ \A j \in 1..(i - 1) : ~hasError(rs[j])

\* C5: combine(rs) is Success of the values in input order when no element
\* carries an error (Success([]) for the empty list), and otherwise the
\* Failure of the lowest-index element that carries one.
C5_CombineFirstFailureWins ==
  op = "combine" =>
    IF \A i \in 1..Len(args) : ~hasError(args[i])
      THEN out = Ret(Ok(Arr([i \in 1..Len(args) |-> args[i].data])))
      ELSE out = Ret(Tuple(Null, args[FirstFailure(args)].error))

\* a failure between a success and a later, different failure
C5_Witness ==
  /\ op = "combine" /\ Len(args) = 3
  /\ ~hasError(args[1]) /\ hasError(args[2]) /\ hasError(args[3])
  /\ args[2].error # args[3].error
  /\ out = Ret(Tuple(Null, args[2].error))

\* an input promise that ended in a failure: rejected, or fulfilled with a
\* Result that carries an error
IsFailing(p) ==
  \/ p.st = "rejected"
  \/ p.st = "fulfilled" /\ hasError(p.val)

AllSettled == \A i \in 1..Len(inP) : inP[i].st # "pending"

FirstFailing ==
  CHOOSE i \in 1..Len(inP) :
    IsFailing(inP[i]) /\ \A j \in 1..(i - 1) : ~IsFailing(inP[j])

\* out reports the failure of input promise p
Reports(p) ==
  IF p.st = "fulfilled" THEN out = Ret(p.val)
  ELSE \/ out.kind = "throw" /\ out.val = p.val
       \/ out.kind = "return" /\ out.val = Err(p.val)

\* C6: whatever the order in which the inputs complete, combineAsync reports
\* the failure of the lowest-index failing input, and the values in list
\* order when none fails.  Violated: when input 2 rejects before input 1
\* has failed, the rejection of input 2 is reported.
C6_CombineAsyncListOrder ==
  (op = "combineAsync" /\ Settled /\ AllSettled) =>
    IF \E i \in 1..Len(inP) : IsFailing(inP[i])
      THEN Reports(inP[FirstFailing])
      ELSE out = Ret(Ok(Arr([i \in 1..Len(inP) |-> inP[i].val.data])))

\* C7: combineAsync settles its promise only after every input has settled.
\* Violated: Promise.all rejects at the first rejection, siblings pending.
C7_CombineAsyncJoinsAll ==
  (op = "combineAsync" /\ Settled) => AllSettled

\* C8: chain and chainAsync, on an input that carries an error e, never
\* invoke f and return the Failure of that same e.  An input carries an
\* error when its error slot is populated; [null, null] is the value of
\* Ok(null) and is handled as a success.
C8_ChainShortCircuits ==
  /\ (op = "chain" /\ hasError(arg)) =>
        (calls = 0 /\ out = Ret(Tuple(Null, arg.error)))
  /\ (op = "chainAsync" /\ inP[1].st = "fulfilled" /\ hasError(inP[1].val)) =>
        (calls = 0 /\ (Settled => out = Ret(Tuple(Null, inP[1].val.error))))

C8_Witness ==
  /\ op = "chainAsync" /\ inP[1].st = "fulfilled" /\ hasError(inP[1].val)
  /\ fn = "okB" /\ Settled

\* map's contract on input r, given the completion o and the number n of
\* invocations of the function f
MapLaw(r, f, o, n) ==
  IF r.error # Null
    THEN o = Ret(Tuple(Null, r.error)) /\ n = 0
    ELSE /\ n = 1
         /\ Apply(f, r.data).kind = "return" => o = Ret(Ok(Apply(f, r.data).val))

\* C9: map and mapAsync on Success(v) give Success(f(v)) with f invoked
\* exactly once; on an input carrying an error e they give the Failure of the
\* same e and do not invoke f.
C9_MapAppliesOnce ==
  /\ op = "map" => MapLaw(arg, fn, out, calls)
  /\ (op = "mapAsync" /\ Settled /\ inP[1].st = "fulfilled") =>
        MapLaw(inP[1].val, fn, out, calls)

C9_Witness ==
  /\ op = "map" /\ arg = Ok(Val("a")) /\ fn = "swap"
  /\ out = Ret(Ok(Val("b"))) /\ calls = 1

TotalOps == {"unwrapOr", "map", "mapError", "chain", "combine", "trySync",
             "tryAsync", "mapAsync", "chainAsync", "combineAsync"}

\* C10: no combinator but unwrap raises or rejects unless the user's
\* transform function raised.  Violated: mapAsync, chainAsync and
\* combineAsync reject when an input promise rejects.
C10_OnlyUserFnRaises ==
  (op \in TotalOps /\ out.kind = "throw") => fnOut.kind = "throw"

\* ---------------------------------------------- claims on the request path
\* the ResultInterceptor is provided, so it is on the request path
Intercepting == "ResultInterceptor" \in registered.providers

\* the request is over and the exception filter sent a response
FilterResponded ==
  stage = "done" /\ interceptOut.kind = "throw" /\ Len(responses) = 1

\* the exception that reached the filter
Caught == interceptOut.val

\* the error object of the failure envelope the filter sent
Rendered == responses[1].body.props.error

\* v is a Result tuple whose error slot is populated
IsFailure(v) == "t" \notin DOMAIN v /\ v.error # Null

\* C11: every request gets exactly one response: a success envelope from the
\* outbound adapter when the handler returned a value that is no Failure,
\* else one failure envelope from the inbound adapter; a returned
\* Err(ValidationError) is rendered with status 400, code VALIDATION_ERROR.
\* Violated: no response is sent when the logger raises (C12), and a raw
\* array of length 2 is re-raised as if it were a Failure (C20).
C11_OneResponsePerRequest ==
  (Intercepting /\ stage = "done") =>
    /\ Len(responses) = 1
    /\ IF handlerOut.kind = "return" /\ ~IsFailure(handlerOut.val)
         THEN /\ responses[1].by = "interceptor"
              /\ responses[1].body.props.success = TRUE
         ELSE /\ responses[1].by = "filter"
              /\ responses[1].body.props.success = FALSE
    /\ (/\ handlerOut.kind = "return" /\ IsFailure(handlerOut.val)
        /\ IsAppError(handlerOut.val.error)
        /\ handlerOut.val.error.cls = "ValidationError") =>
          (responses[1].status = 400 /\ Rendered.code = "VALIDATION_ERROR")

\* C12: when the logger raises inside the filter, the failure response is
\* still sent and the filter does not raise.  Violated: logError is called
\* outside any try/catch, before the response is written.
C12_LoggerFailureSwallowed ==
  (stage = "done" /\ logOut.kind = "throw") =>
    (filterOut.kind = "return" /\ Len(responses) = 1)

\* no recoverability flag, or a flag that is false
NonRecoverable(e) == "isOperational" \notin DOMAIN e \/ e.isOperational = FALSE

\* C13: each Error caught by the filter is logged exactly once, at fatal
\* severity when it is non-recoverable (flag false or no flag), at error
\* severity when it is a recoverable taxonomy error.  Violated: an error
\* without a flag is logged at error severity.
C13_SeverityByRecoverability ==
  (stage = "done" /\ interceptOut.kind = "throw" /\ Caught \in Exceptions) =>
    /\ Len(logs) = 1
    /\ NonRecoverable(Caught) => logs[1].severity = "fatal"
    /\ ~NonRecoverable(Caught) => logs[1].severity = "error"

\* C14: in production an AppError whose isOperational is false is rendered
\* with the generic message, and with its own status code.  Violated: the
\* filter renders every AppError's own message.
C14_ProductionHidesInternals ==
  (/\ FilterResponded /\ env = "production"
   /\ IsAppError(Caught) /\ Caught.isOperational = FALSE) =>
     /\ Rendered.message = GenericMessage
     /\ "statusCode" \in DOMAIN Caught.context =>
          Rendered.statusCode = Caught.context.statusCode

\* C15: a failure envelope sent by the filter has a stack field only when
\* NODE_ENV is not 'production'.
C15_NoStackInProduction ==
  FilterResponded => ("stack" \in DOMAIN Rendered => env # "production")

C15_Witness ==
  /\ FilterResponded /\ env = "production"
  /\ Caught = PlainError("boom") /\ "stack" \notin DOMAIN Rendered

\* C16: an exception that is neither an HttpException nor an AppError is
\* rendered with status 500, code INTERNAL_ERROR and the generic message,
\* not its own message.
C16_UnclassifiedIsGeneric ==
  (FilterResponded /\ ~IsHttpException(Caught) /\ ~IsAppError(Caught)) =>
    /\ responses[1].status = 500
    /\ Rendered.statusCode = 500
    /\ Rendered.code = "INTERNAL_ERROR"
    /\ Rendered.message = GenericMessage
    /\ "message" \in DOMAIN Caught => Rendered.message # Caught.message

C16_Witness ==
  /\ FilterResponded /\ handlerOut = Thr(PlainError("boom"))
  /\ Rendered.message = GenericMessage /\ responses[1].status = 500

\* C17: an AppError is rendered with its own context.statusCode and
\* context.code (where it has them), its message and the request path; the
\* transport status is the body's statusCode; the context field is present
\* exactly when the metadata map is non-empty, and then is that map.
C17_AppErrorRendered ==
  (FilterResponded /\ IsAppError(Caught)) =>
    LET x == Caught.context
    IN /\ responses[1].status = Rendered.statusCode
       /\ "statusCode" \in DOMAIN x => Rendered.statusCode = x.statusCode
       /\ "code" \in DOMAIN x => Rendered.code = x.code
       /\ Rendered.message = Caught.message
       /\ Rendered.path = path
       /\ "context" \in DOMAIN Rendered <=>
            ("metadata" \in DOMAIN x /\ DOMAIN x.metadata # {})
       /\ "context" \in DOMAIN Rendered => Rendered.context = x.metadata

\* NotFoundError('User not found', {metadata: {userId: '999'}}) on /users/999
C17_Witness ==
  /\ FilterResponded /\ path = "/users/999"
  /\ Caught = TaxonomyError("NotFoundError", "User not found",
                            [metadata |-> [userId |-> "999"]], Undefined)
  /\ responses[1].status = 404 /\ Rendered.code = "NOT_FOUND"
  /\ Rendered.message = "User not found" /\ Rendered.context = [userId |-> "999"]

\* C18: an HttpException is rendered with its own status as transport status
\* and statusCode, and with its own message, whether its response is a string
\* or an object.  Violated: an object response without a message property is
\* rendered with the generic message.
C18_HttpExceptionRendered ==
  (FilterResponded /\ IsHttpException(Caught)) =>
    /\ responses[1].status = Caught.status
    /\ Rendered.statusCode = Caught.status
    /\ Rendered.message = Caught.message

\* C19: a returned Result tuple with a populated error slot makes the
\* outbound adapter re-raise exactly that error and send nothing itself; a
\* returned Success(v) makes it emit {success: true, data: v, timestamp}.
C19_TupleTranslated ==
  (/\ Intercepting /\ stage \in {"intercepted", "done"}
   /\ handlerOut.kind = "return" /\ handlerOut.val \in HandlerResults) =>
     IF handlerOut.val.error # Null
       THEN /\ interceptOut = Thr(handlerOut.val.error)
            /\ \A i \in 1..Len(responses) : responses[i].by # "interceptor"
       ELSE interceptOut =
              Ret(Obj([success |-> TRUE, data |-> handlerOut.val.data, timestamp |-> Now]))

C19_Witness ==
  /\ Intercepting /\ stage = "done" /\ handlerOut.kind = "return" /\ IsFailure(handlerOut.val)
  /\ handlerOut.val.error.cls = "ValidationError"
  /\ interceptOut = Thr(handlerOut.val.error)
  /\ Len(responses) = 1 /\ responses[1].by = "filter"

\* an envelope the handler built itself
IsEnvelope(v) ==
  HasKey(v, "success") /\ DOMAIN v.props \in {{"success", "data", "timestamp"}, {"success", "error"}}

\* an array that could be a Result: two slots, at least one of them null
ResultShaped(v) ==
  Len(v.items) = 2 /\ (v.items[1] = Null \/ v.items[2] = Null)

\* C20: raw data (no Result tuple, no canonical envelope) is wrapped
\* unchanged as the data of a success envelope, and the adapter does not
\* raise.  Violated: a raw array of length 2 is read as a Result tuple, and a
\* raw object with a key named success is passed through unwrapped.
C20_RawDataWrapped ==
  (/\ Intercepting /\ stage \in {"intercepted", "done"} /\ handlerOut.kind = "return"
   /\ handlerOut.val \in {v \in RawArrays : ~ResultShaped(v)}
                          \cup {v \in RawValues : ~IsEnvelope(v)}) =>
     interceptOut = Ret(Obj([success |-> TRUE, data |-> handlerOut.val, timestamp |-> Now]))

\* C21: a value that is a canonical envelope already leaves the outbound
\* adapter unchanged (not nested as the data of a new envelope, no new
\* timestamp), and the adapter applied to what it emitted emits the same.
C21_EnvelopePassesThrough ==
  (Intercepting /\ stage \in {"intercepted", "done"} /\ handlerOut.kind = "return") =>
    /\ IsEnvelope(handlerOut.val) => interceptOut = Ret(handlerOut.val)
    /\ interceptOut.kind = "return" => intercept(interceptOut.val) = interceptOut

C21_Witness ==
  /\ Intercepting /\ stage = "done"
  /\ handlerOut = Ret(Obj([success |-> TRUE, data |-> Val("a"), timestamp |-> "earlier"]))
  /\ Len(responses) = 1 /\ responses[1].body = handlerOut.val
  /\ responses[1].body.props.timestamp = "earlier"

\* the error a handler threw or returned in a Result
HandlerError ==
  IF handlerOut.kind = "throw" THEN handlerOut.val ELSE handlerOut.val.error

\* the handler threw an Error, or returned a Result whose error is one
HandlerRaised ==
  /\ handlerOut.kind \in {"return", "throw"}
  /\ handlerOut.kind = "return" => handlerOut.val \in HandlerResults
  /\ HandlerError \in Exceptions

\* C22: every concrete error kind carries its pinned code and status whatever
\* context the caller passed (one that sets code or statusCode included), and
\* InternalError is the only kind whose isOperational is false.
C22_PinnedCodeAndStatus ==
  (HandlerRaised /\ HandlerError.cls \in Taxonomy) =>
    LET e == HandlerError
        pin == CASE e.cls = "ValidationError" -> <<"VALIDATION_ERROR", 400>>
                 [] e.cls = "NotFoundError" -> <<"NOT_FOUND", 404>>
                 [] e.cls = "UnauthorizedError" -> <<"UNAUTHORIZED", 401>>
                 [] e.cls = "ForbiddenError" -> <<"FORBIDDEN", 403>>
                 [] e.cls = "ConflictError" -> <<"CONFLICT", 409>>
                 [] e.cls = "InternalError" -> <<"INTERNAL_ERROR", 500>>
                 [] e.cls = "ExternalServiceError" -> <<"EXTERNAL_SERVICE_ERROR", 502>>
                 [] e.cls = "TimeoutError" -> <<"TIMEOUT", 408>>
    IN /\ e.context.code = pin[1]
       /\ e.context.statusCode = pin[2]
       /\ e.isOperational = (e.cls # "InternalError")

\* new ValidationError('bad email', {code: 'CUSTOM', statusCode: 418})
C22_Witness ==
  /\ HandlerRaised
  /\ HandlerError = TaxonomyError("ValidationError", "bad email",
                                  [code |-> "CUSTOM", statusCode |-> 418], Undefined)
  /\ HandlerError.context.code = "VALIDATION_ERROR"
  /\ HandlerError.context.statusCode = 400

\* the options ask for the ResultInterceptor
WantsInterceptor ==
  /\ "useResultInterceptor" \in DOMAIN registered.options
  /\ registered.options.useResultInterceptor = TRUE

\* C25: registered either way, the module provides the exception filter;
\* registered through forRootAsync with options resolving to
\* useResultInterceptor: true it provides the ResultInterceptor as forRoot
\* does, so a returned Failure tuple is re-raised into the filter and a
\* returned Success is wrapped in the success envelope.  Violated:
\* forRootAsync never provides the ResultInterceptor.
C25_AsyncRegistersInterceptor ==
  registered.via # "none" =>
    /\ "APP_FILTER" \in registered.providers
    /\ WantsInterceptor =>
         /\ "ResultInterceptor" \in registered.providers
         /\ (/\ stage \in {"intercepted", "done"}
             /\ handlerOut.kind = "return" /\ handlerOut.val \in HandlerResults) =>
               IF handlerOut.val.error # Null
                 THEN interceptOut = Thr(handlerOut.val.error)
                 ELSE interceptOut =
                        Ret(Obj([success |-> TRUE, data |-> handlerOut.val.data,
                                 timestamp |-> Now]))

\* C23: enhanceError returns an error that has a context already as the
\* same object, and otherwise a new AppError whose originalError is the
\* input; so enhanceError applied to what enhanceError returned returns that
\* same object.  The input is left as it was.
C23_EnhanceErrorIdempotent ==
  helper.op = "enhanceError" =>
    LET e == helper.arg
    IN /\ heap[e] = helper.before
       /\ IF "context" \in DOMAIN helper.before
            THEN helper.ret = e
            ELSE /\ helper.ret = helper.size + 1
                 /\ heap[helper.ret].cls = "AppError"
                 /\ heap[helper.ret].originalError = Ref(e)
       /\ (helper.prev.op = "enhanceError" /\ e = helper.prev.ret) => helper.ret = e

\* enhanceError(enhanceError(new Error('boom')))
C23_Witness ==
  /\ helper.op = "enhanceError" /\ helper.prev.op = "enhanceError"
  /\ helper.arg = helper.prev.ret /\ helper.ret = helper.arg
  /\ heap[1] = PlainError("boom") /\ heap[helper.ret].originalError = Ref(1)

\* C24: wrapError(e, msg, ctx) returns a new base AppError whose
\* originalError is e itself, and leaves e as it was.
C24_WrapErrorKeepsOriginal ==
  helper.op = "wrapError" =>
    /\ helper.ret = helper.size + 1
    /\ heap[helper.ret].cls = "AppError"
    /\ heap[helper.ret].name = "AppError"
    /\ heap[helper.ret].message = "wrapped"
    /\ heap[helper.ret].originalError = Ref(helper.arg)
    /\ heap[helper.arg] = helper.before

C24_Witness ==
  /\ helper.op = "wrapError"
  /\ heap[helper.arg].cls = "NotFoundError"
  /\ heap[helper.ret].originalError = Ref(helper.arg)
  /\ heap[helper.ret].context.timestamp = ConstructedAt

\* C26: an error is not modified after its construction: the combinators
\* hand on the error they were given, the helpers leave their argument as it
\* was, the outbound adapter re-raises the handler's error itself, and the
\* inbound adapter logs that same error and renders its code and statusCode;
\* context.timestamp stays the time of construction.
C26_ErrorsNotModified ==
  /\ (op \in {"map", "chain"} /\ hasError(arg)) => out = Ret(Tuple(Null, arg.error))
  /\ (op = "unwrap" /\ hasError(arg)) => out = Thr(arg.error)
  /\ (op = "combine" /\ hasError(out.val)) =>
        \E i \in 1..Len(args) : args[i].error = out.val.error
  /\ helper.op # "none" => heap[helper.arg] = helper.before
  /\ \A i \in 1..Len(heap) :
        IsAppError(heap[i]) => heap[i].context.timestamp = ConstructedAt
  /\ (HandlerRaised /\ IsAppError(HandlerError)) =>
        /\ HandlerError.context.timestamp = ConstructedAt
        /\ interceptOut.kind = "throw" => interceptOut.val = HandlerError
        /\ (interceptOut.kind = "return" /\ ~Intercepting) => interceptOut = handlerOut
        /\ \A i \in 1..Len(logs) : logs[i].error = HandlerError
        /\ (FilterResponded /\ "code" \in DOMAIN HandlerError.context) =>
              /\ Rendered.code = HandlerError.context.code
              /\ Rendered.statusCode = HandlerError.context.statusCode

C26_Witness ==
  /\ Intercepting /\ FilterResponded
  /\ handlerOut.kind = "return" /\ IsFailure(handlerOut.val)
  /\ HandlerError.cls = "NotFoundError"
  /\ Caught = HandlerError /\ Len(logs) = 1 /\ logs[1].error = HandlerError
  /\ logs[1].error.context.timestamp = ConstructedAt

\* C27: instances of a class under @ProgrammingError report isOperational
\* false (isOperationalError is false, logError logs them as programming
\* errors), instances of a class under @Operational report true, whatever the
\* constructor passes.  Violated: the constructor's own property shadows the
\* one the decorator sets on the prototype.
C27_DecoratorDecides ==
  \A c \in DOMAIN protos :
    ("isOperational" \in DOMAIN protos[c] /\ helper.op # "none" /\ helper.before.cls = c) =>
      /\ helper.op = "isOperationalError" => helper.answer = protos[c].isOperational
      /\ helper.op = "logError" =>
           helper.severity = IF protos[c].isOperational THEN "error" ELSE "fatal"
====
